---------------------------- MODULE Spec2Model ----------------------------
(***************************************************************************)
(* Billing core of src/main.py: class BillingCalculator.                   *)
(*                                                                         *)
(*   load_data            eligibility filter and inner join                *)
(*   calculate_billing    per-commerce aggregation and the two pricing     *)
(*                        passes                                           *)
(*   _calculate_company_billing   the contract rule table                  *)
(*   run_billing_process  the whole run: load, price, assemble, export,    *)
(*                        error handling and release of the connection     *)
(*                                                                         *)
(* Money.  The code computes amounts as Python numbers (int while neither  *)
(* a discount nor the IVA is applied, float afterwards).  Amounts are      *)
(* modelled as exact decimals with four fractional digits,                 *)
(* [units, frac] = units + frac / 10000, which is wide enough for          *)
(* int * 0.95 * 1.19 and int * 0.92 * 1.19 (three fractional digits, the   *)
(* rates being multiples of 10).  The representation is split in two       *)
(* fields because the products exceed 32 bits.  Binary floating point      *)
(* error (relative 1e-16) is below the resolution of the model.            *)
(*                                                                         *)
(* Names.  A company name is a sequence of tokens; the token " " is a      *)
(* whitespace character, every other token is a run of non-blank           *)
(* characters.  str.strip() removes leading and trailing " " tokens.       *)
(***************************************************************************)
EXTENDS Integers, Sequences, FiniteSets, Bags, TLC

(***************************************************************************)
(* Bounds                                                                  *)
(***************************************************************************)
\* Call counts explored around every contractual threshold: t-Slack..t+Slack
Slack == 1
\* Distinct kinds of call record in the table apicall
MaxKinds == 2
\* Calls of run_billing_process on one calculator
MaxCalls == 1

(***************************************************************************)
(* Program constants                                                       *)
(***************************************************************************)
\* self.iva_rate = 0.19, in hundredths
iva_rate == 19

\* An optional value: None, or Some(x)
None == <<>>
Some(x) == <<x>>

(***************************************************************************)
(* Exact decimal arithmetic                                                *)
(***************************************************************************)
Money(n) == [units |-> n, frac |-> 0]

\* m * (p / 100), as `base *= 0.95` and `base * (1 + self.iva_rate)` do
MulPct(m, p) ==
    LET u    == m.units * p
        f    == m.frac * p
        part == (u % 100) * 10000 + f
        q    == part \div 100
    IN  [units |-> (u \div 100) + (q \div 10000), frac |-> q % 10000]

\* a - b for a >= b, as `Valor_Total - Valor_comision`
Minus(a, b) ==
    IF a.frac >= b.frac
    THEN [units |-> a.units - b.units, frac |-> a.frac - b.frac]
    ELSE [units |-> a.units - b.units - 1, frac |-> a.frac + 10000 - b.frac]

LessEq(a, b) == \/ a.units < b.units
                \/ a.units = b.units /\ a.frac <= b.frac

(***************************************************************************)
(* Company names                                                           *)
(***************************************************************************)
Innovexa   == <<"Innovexa", " ", "Solutions">>
NexaTech   == <<"NexaTech", " ", "Industries">>
QuantumLeap == <<"QuantumLeap", " ", "Inc">>
Zenith     == <<"Zenith", " ", "Corp">>
FusionWave == <<"FusionWave", " ", "Enterprises">>

RECURSIVE lstrip(_)
lstrip(name) == IF name # <<>> /\ Head(name) = " "
                THEN lstrip(Tail(name)) ELSE name

RECURSIVE rstrip(_)
rstrip(name) == IF name # <<>> /\ name[Len(name)] = " "
                THEN rstrip(SubSeq(name, 1, Len(name) - 1)) ELSE name

\* row['commerce_name'].strip()
strip(name) == rstrip(lstrip(name))

(***************************************************************************)
(* Pricing engine                                                          *)
(***************************************************************************)
\* NexaTech Industries: rate by volume of successful calls
nexatech_rate_lt(successful_calls) ==
    IF successful_calls < 10000 THEN 250
    ELSE IF successful_calls < 20000 THEN 200
    ELSE 170

nexatech_rate(successful_calls) ==
    IF successful_calls <= 10000 THEN 250
    ELSE IF successful_calls <= 20000 THEN 200
    ELSE 170

\* Zenith Corp: rate by volume of successful calls
zenith_rate_lt(successful_calls) ==
    IF successful_calls < 22000 THEN 250 ELSE 130

zenith_rate(successful_calls) ==
    IF successful_calls <= 22000 THEN 250 ELSE 130

\* Zenith Corp: 5% off for an excess of failed calls
zenith_discount_ge(base, discount, failed_calls) ==
    IF discount /\ failed_calls >= 6000 THEN MulPct(base, 95) ELSE base

zenith_discount(base, discount, failed_calls) ==
    IF discount /\ failed_calls > 6000 THEN MulPct(base, 95) ELSE base

\* FusionWave Enterprises: discounts by band of failed calls
fusionwave_discount_lt(base, discount, failed_calls) ==
    IF discount
    THEN IF 2500 < failed_calls /\ failed_calls <= 4500
         THEN MulPct(base, 95)
         ELSE IF failed_calls > 4500
         THEN MulPct(base, 92)
         ELSE base
    ELSE base

fusionwave_discount(base, discount, failed_calls) ==
    IF discount
    THEN IF 2500 <= failed_calls /\ failed_calls <= 4500
         THEN MulPct(base, 95)
         ELSE IF failed_calls > 4500
         THEN MulPct(base, 92)
         ELSE base
    ELSE base

\* The last branch of the chain: elif company_name == "FusionWave Enterprises"
last_branch_else(company_name) == TRUE

last_branch(company_name) == company_name = FusionWave

\* BillingCalculator._calculate_company_billing(row, apply_discount, apply_iva)
_calculate_company_billing(r, discount, iva) ==
    LET company_name     == strip(r.commerce_name)
        successful_calls == r.successful
        failed_calls     == r.failed
        base ==
            IF company_name = Innovexa
            THEN Money(successful_calls * 300)
            ELSE IF company_name = NexaTech
            THEN Money(successful_calls * nexatech_rate(successful_calls))
            ELSE IF company_name = QuantumLeap
            THEN Money(successful_calls * 600)
            ELSE IF company_name = Zenith
            THEN zenith_discount(
                     Money(successful_calls * zenith_rate(successful_calls)),
                     discount, failed_calls)
            ELSE IF last_branch(company_name)
            THEN fusionwave_discount(Money(successful_calls * 300),
                                     discount, failed_calls)
            ELSE Money(0)
    IN  IF iva THEN MulPct(base, 100 + iva_rate) ELSE base

\* The base price with the default flags of _calculate_company_billing
_calculate_company_billing_base_defaults(r) ==
    _calculate_company_billing(r, TRUE, TRUE)

\* BillingCalculator._calculate_company_billing_base(row)
_calculate_company_billing_base(r) ==
    _calculate_company_billing(r, FALSE, FALSE)

(***************************************************************************)
(* Record source                                                           *)
(*                                                                         *)
(* apicall is a bag of call records [commerce_id, date_api_call,           *)
(* ask_status]: a record kind and the number of rows of that kind.         *)
(* date_api_call is [year, month] or Unparseable, a text pd.to_datetime    *)
(* rejects.  commerce maps commerce_id, the key of the table, to its row;  *)
(* a commerce_id may have no row.  commerce_name is never NULL (groupby    *)
(* would drop such a group).  The column commerce_email and the day of a   *)
(* timestamp take part in no decision and are left out.  A file without    *)
(* the two tables (sqlite3.connect creates a missing file empty) is        *)
(* tables_exist = FALSE.                                                   *)
(***************************************************************************)
VARIABLES
    tables_exist,     \* the tables apicall and commerce exist in the file
    apicall,          \* table apicall
    commerce,         \* table commerce
    conn,             \* self.conn: "open" or "closed"
    calls,            \* calls of run_billing_process so far
    selected_months,  \* argument of the last call
    export_path,      \* argument of the last call
    stages,           \* pipeline stages the last call completed
    error_logged,     \* logging.error was called by the last call
    outcome,          \* "not_called", "returned" or "raised"
    returned,         \* value the last call returned
    exported,         \* sheet 'Resumen Facturacion' written by the last call
    used,             \* the calculator has had a call of run_billing_process
    first_use,        \* the last call was the first one of its calculator
    again,            \* what the caller keeps of the run it repeated
    loaded,           \* the last direct call of load_data
    row,              \* argument of a direct call of the pricing engine
    apply_discount,   \* argument of a direct call of the pricing engine
    apply_iva,        \* argument of a direct call of the pricing engine
    total             \* value the direct call returned

pipeline_vars == <<tables_exist, apicall, commerce, conn, calls,
                   selected_months, export_path, stages, error_logged,
                   outcome, returned, exported, used, first_use, again,
                   loaded>>
pricing_vars  == <<row, apply_discount, apply_iva, total>>
vars == <<pipeline_vars, pricing_vars>>

Unparseable == [text |-> "not a date"]

\* if selected_months:   (None and the empty list are false)
Truthy(months) == months # None /\ months[1] # <<>>

\* the months load_data filters on
MonthsOf(months) ==
    IF Truthy(months)
    THEN {months[1][i] : i \in 1..Len(months[1])}
    ELSE {7, 8}

RECURSIVE SumOver(_, _)
SumOver(bag, kinds) ==
    IF kinds = {} THEN 0
    ELSE LET k == CHOOSE x \in kinds : TRUE
         IN  bag[k] + SumOver(bag, kinds \ {k})

\* A read that does not need the connection
ReadFails_anyconn == ~tables_exist

\* pd.read_sql(..., self.conn) raises
ReadFails == conn = "closed" \/ ~tables_exist

\* pd.to_datetime(df_api['date_api_call']) raises
ParseFails == \E k \in DOMAIN apicall : k.date_api_call = Unparseable

\* The month test alone, without the year
Eligible_anyyear(k, months) == /\ k.date_api_call # Unparseable
                               /\ k.date_api_call.month \in MonthsOf(months)

\* df_api_filtered
Eligible(k, months) == /\ k.date_api_call # Unparseable
                       /\ k.date_api_call.year = 2024
                       /\ k.date_api_call.month \in MonthsOf(months)

df_api_filtered(months) ==
    [k \in {x \in DOMAIN apicall : Eligible(x, months)} |-> apicall[k]]

\* df_commerce_active
df_commerce_active_nocase ==
    {c \in DOMAIN commerce :
        commerce[c].commerce_status \in {"Active", "active"}}

df_commerce_active ==
    {c \in DOMAIN commerce : commerce[c].commerce_status = "Active"}

\* BillingCalculator.load_data: the merged frame
load_data(months) ==
    LET filtered == df_api_filtered(months)
    IN  [k \in {x \in DOMAIN filtered :
                   x.commerce_id \in df_commerce_active} |-> filtered[k]]

RECURSIVE Ascending(_)
Ascending(S) ==
    IF S = {} THEN <<>>
    ELSE LET m == CHOOSE x \in S : \A y \in S : x <= y
         IN  <<m>> \o Ascending(S \ {m})

\* successful=('ask_status', lambda x: (x == "Successful").sum())
is_successful(ask_status) == ask_status = "Successful"

\* failed=('ask_status', lambda x: (x != "Successful").sum())
is_failed_literal(ask_status) == ask_status = "Failed"

is_failed(ask_status) == ask_status # "Successful"

\* df_merged.groupby(["commerce_id", "commerce_name"]).agg(...)
grouped(df_merged) ==
    LET ids == Ascending({k.commerce_id : k \in DOMAIN df_merged})
    IN  [i \in 1..Len(ids) |->
            [commerce_id   |-> ids[i],
             commerce_name |-> commerce[ids[i]].commerce_name,
             successful    |-> SumOver(df_merged,
                                 {k \in DOMAIN df_merged :
                                    /\ k.commerce_id = ids[i]
                                    /\ is_successful(k.ask_status)}),
             failed        |-> SumOver(df_merged,
                                 {k \in DOMAIN df_merged :
                                    /\ k.commerce_id = ids[i]
                                    /\ is_failed(k.ask_status)})]]

\* BillingCalculator.calculate_billing
calculate_billing(df_merged) ==
    LET g == grouped(df_merged)
    IN  [i \in 1..Len(g) |->
            [commerce_id            |-> g[i].commerce_id,
             commerce_name          |-> g[i].commerce_name,
             successful             |-> g[i].successful,
             failed                 |-> g[i].failed,
             total_a_cobrar_sin_iva |-> _calculate_company_billing_base(g[i]),
             total_a_cobrar_con_iva |->
                 _calculate_company_billing(g[i], TRUE, TRUE)]]

\* datetime(2024, mes, 1) raises ValueError
MonthNameFails(months) ==
    Truthy(months) /\ \E m \in MonthsOf(months) : m \notin 1..12

\* datetime(2024, mes, 1).strftime('%B')
MonthName(mes) ==
    <<"January", "February", "March", "April", "May", "June", "July",
      "August", "September", "October", "November", "December">>[mes]

\* meses_str
meses_str(months) ==
    IF Truthy(months)
    THEN [i \in 1..Len(months[1]) |-> MonthName(months[1][i])]
    ELSE <<"Julio", "Agosto">>

\* the summary after the joins, the renaming and the column selection
billing_summary(summary, months) ==
    [i \in 1..Len(summary) |->
        [Fecha          |-> meses_str(months),
         Nombre         |-> summary[i].commerce_name,
         Nit            |-> commerce[summary[i].commerce_id].commerce_nit,
         Valor_comision |-> summary[i].total_a_cobrar_sin_iva,
         Valor_iva      |-> Minus(summary[i].total_a_cobrar_con_iva,
                                  summary[i].total_a_cobrar_sin_iva),
         Valor_Total    |-> summary[i].total_a_cobrar_con_iva,
         Conseguidas    |-> summary[i].successful,
         Falladas       |-> summary[i].failed]]

\* round(2) of one amount; a tie is decided by the binary representation
Round2(m, tie_up) ==
    LET r    == m.frac % 100
        down == [units |-> m.units, frac |-> m.frac - r]
        up   == IF m.frac - r + 100 = 10000
                THEN [units |-> m.units + 1, frac |-> 0]
                ELSE [units |-> m.units, frac |-> m.frac - r + 100]
    IN  IF r < 50 THEN down
        ELSE IF r > 50 THEN up
        ELSE IF tie_up THEN up ELSE down

\* billing_summary[columnas_numericas].round(2)
rounded(summary, tie_up) ==
    [i \in 1..Len(summary) |->
        [summary[i] EXCEPT !.Valor_comision = Round2(@, tie_up),
                           !.Valor_iva      = Round2(@, tie_up),
                           !.Valor_Total    = Round2(@, tie_up)]]

(***************************************************************************)
(* run_billing_process                                                     *)
(***************************************************************************)
\* The stages of one call, in the order the code runs them
StageOrder == <<"read", "parse", "filter", "merge", "aggregate", "price",
                "assemble", "label", "round", "export">>

StagesUpTo(n) == {StageOrder[i] : i \in 1..n}

\* The except branch without the finally clause: the connection stays open
Swallowed_noclose(path, months, done) ==
    /\ selected_months' = months
    /\ export_path' = path
    /\ stages' = done
    /\ error_logged' = TRUE
    /\ outcome' = "returned"
    /\ returned' = None
    /\ exported' = None
    /\ conn' = conn
    /\ calls' = calls + 1
    /\ UNCHANGED <<tables_exist, apicall, commerce, pricing_vars>>

\* The call ends in the except branch: the error is logged and swallowed,
\* the function falls off its end and returns None; finally closes self.conn
Swallowed(path, months, done) ==
    /\ selected_months' = months
    /\ export_path' = path
    /\ stages' = done
    /\ error_logged' = TRUE
    /\ outcome' = "returned"
    /\ returned' = None
    /\ exported' = None
    /\ conn' = "closed"
    /\ calls' = calls + 1
    /\ UNCHANGED <<tables_exist, apicall, commerce, pricing_vars>>

\* The call reaches `return billing_summary`; finally closes self.conn
Returns(path, months, summary, sheet, done) ==
    /\ selected_months' = months
    /\ export_path' = path
    /\ stages' = done
    /\ error_logged' = FALSE
    /\ outcome' = "returned"
    /\ returned' = Some(summary)
    /\ exported' = sheet
    /\ conn' = "closed"
    /\ calls' = calls + 1
    /\ UNCHANGED <<tables_exist, apicall, commerce, pricing_vars>>

\* Some amount of the summary lies halfway between two cents
HasTie(summary) ==
    \E i \in 1..Len(summary) :
        \/ summary[i].Valor_comision.frac % 100 = 50
        \/ summary[i].Valor_iva.frac % 100 = 50
        \/ summary[i].Valor_Total.frac % 100 = 50

\* Lines 468-535: the period label, the export and the return
label_and_export(path, months, summary) ==
    IF MonthNameFails(months)
    THEN Swallowed(path, months, StagesUpTo(7))
    ELSE IF path = None
    THEN Returns(path, months, summary, None, StagesUpTo(8))
    ELSE \* os.makedirs / pd.ExcelWriter raise
         \/ Swallowed(path, months, StagesUpTo(9))
         \* the summary is rounded in place, written and returned; a tie
         \* x.xx5 rounds up or down with its binary representation
         \/ \E tie_up \in {t \in BOOLEAN : t => HasTie(summary)} :
               Returns(path, months, rounded(summary, tie_up),
                       Some(rounded(summary, tie_up)), StagesUpTo(10))

\* BillingCalculator.run_billing_process(export_path, selected_months)
run_billing_process(path, months) ==
    LET df_merged == load_data(months)
        summary   == billing_summary(calculate_billing(df_merged), months)
    IN  IF ReadFails
        THEN Swallowed(path, months, {})
        ELSE IF ParseFails
        THEN Swallowed(path, months, StagesUpTo(1))
        ELSE IF DOMAIN df_merged = {}
        THEN \* grouped.apply(..., axis=1) returns a frame for a frame
             \* without rows; assigning it to one column raises or not
             \* with the version of pandas
             \/ Swallowed(path, months, StagesUpTo(5))
             \/ label_and_export(path, months, summary)
        ELSE label_and_export(path, months, summary)

(***************************************************************************)
(* Inputs                                                                  *)
(***************************************************************************)
Padded(name) == <<" ">> \o name \o <<" ">>

\* commerce_id values; a commerce_id may have no row in commerce
CommerceIds == {1, 2}

\* Rows of commerce.  The name of a row that is not Active is never read
\* (the row does not pass df_commerce_active), so one name stands for all.
CommerceRows ==
    [commerce_name   : {Innovexa, Zenith, Padded(FusionWave),
                        <<"Acme", " ", "Ltd">>},
     commerce_status : {"Active"}]
    \cup
    [commerce_name   : {Innovexa},
     commerce_status : {"Inactive", "active"}]

CommerceTables ==
    UNION {{[c \in D |->
               [commerce_name   |-> r[c].commerce_name,
                commerce_status |-> r[c].commerce_status,
                commerce_nit    |-> <<"NIT", c>>]] :
            r \in [D -> CommerceRows]} : D \in SUBSET CommerceIds}

\* A timestamp in the default months, one in another month of 2024, one in
\* a default month of another year
Dates == {[year |-> 2024, month |-> 7], [year |-> 2024, month |-> 1],
          [year |-> 2023, month |-> 7]}

AskStatuses == {"Successful", "Unauthorized"}

\* Rows of one kind: one successful call or a hundred; ten other calls or
\* enough of them for every discount
RowCounts == {1, 10, 100, 6001}

CountsFor(kind) ==
    IF kind.ask_status = "Successful" THEN {1, 100} ELSE {10, 6001}

\* pd.to_datetime rejects the whole column for one bad value, whatever the
\* other columns of that row hold: one such kind stands for all
CallKinds == [commerce_id : CommerceIds, date_api_call : Dates,
              ask_status : AskStatuses]
             \cup
             {[commerce_id |-> 1, date_api_call |-> Unparseable,
               ask_status |-> "Successful"]}

RECURSIVE SubsetsUpTo(_, _)
SubsetsUpTo(S, n) ==
    IF n = 0 THEN {{}}
    ELSE LET P == SubsetsUpTo(S, n - 1)
         IN  P \cup {p \cup {x} : p \in P, x \in S}

CallTables ==
    UNION {{t \in [K -> RowCounts] : \A k \in K : t[k] \in CountsFor(k)} :
           K \in SubsetsUpTo(CallKinds, MaxKinds)}

MonthLists == {None, Some(<<>>), Some(<<1>>), Some(<<7, 13>>), Some(<<0>>)}

ExportPaths == {None, Some("reportes/resumen_facturacion.xlsx")}

(***************************************************************************)
(* The run                                                                 *)
(***************************************************************************)
NoDirectCall ==
    /\ row = [commerce_name |-> <<>>, successful |-> 0, failed |-> 0]
    /\ apply_discount = FALSE
    /\ apply_iva = FALSE
    /\ total = None

NotCalled ==
    /\ conn = "open"
    /\ calls = 0
    /\ selected_months = None
    /\ export_path = None
    /\ stages = {}
    /\ error_logged = FALSE
    /\ outcome = "not_called"
    /\ returned = None
    /\ exported = None
    /\ used = FALSE
    /\ first_use = FALSE
    /\ again = None
    /\ loaded = None

\* BillingCalculator.__init__ on a record source
Init ==
    /\ tables_exist \in BOOLEAN
    /\ apicall \in IF tables_exist THEN CallTables ELSE {EmptyBag}
    /\ commerce \in IF tables_exist THEN CommerceTables ELSE {<<>>}
    /\ NotCalled
    /\ NoDirectCall

RunBillingProcess ==
    /\ calls < MaxCalls
    /\ \E path \in ExportPaths, months \in MonthLists :
          run_billing_process(path, months)
    /\ used' = TRUE
    /\ first_use' = ~used
    /\ again' = None
    /\ UNCHANGED loaded

Next == RunBillingProcess

Spec == Init /\ [][Next]_vars

(***************************************************************************)
(* load_data called directly                                               *)
(***************************************************************************)
\* calculator.load_data(months): the frame it returns, or the error it logs
\* and raises again.  The connection stays as it was.
LoadData ==
    /\ \E months \in MonthLists :
          loaded' = Some([selected_months |-> months,
                          conn            |-> conn,
                          outcome         |-> IF ReadFails \/ ParseFails
                                              THEN "raised" ELSE "returned",
                          df_merged       |-> IF ReadFails \/ ParseFails
                                              THEN EmptyBag
                                              ELSE load_data(months)])
    /\ UNCHANGED <<tables_exist, apicall, commerce, conn, calls,
                   selected_months, export_path, stages, error_logged,
                   outcome, returned, exported, used, first_use, again,
                   pricing_vars>>

\* Timestamps for the period filter: both default months, another month of
\* 2024, a default month of the year before and one of the year after
LoadDates == Dates \cup {[year |-> 2024, month |-> 8],
                         [year |-> 2025, month |-> 8]}

LoadKinds == [commerce_id : CommerceIds, date_api_call : LoadDates,
              ask_status : {"Successful"}]
             \cup
             {[commerce_id |-> 1, date_api_call |-> Unparseable,
               ask_status |-> "Successful"]}

LoadCallTables ==
    UNION {[K -> {1}] : K \in SubsetsUpTo(LoadKinds, MaxKinds)}

LoadCommerceTables ==
    {t \in CommerceTables :
        \A c \in DOMAIN t : t[c].commerce_name = Innovexa}

InitLoad ==
    /\ tables_exist \in BOOLEAN
    /\ apicall \in IF tables_exist THEN LoadCallTables ELSE {EmptyBag}
    /\ commerce \in IF tables_exist THEN LoadCommerceTables ELSE {<<>>}
    /\ NotCalled
    /\ NoDirectCall

NextLoad == LoadData

SpecLoad == InitLoad /\ [][NextLoad]_vars

(***************************************************************************)
(* A second run                                                            *)
(***************************************************************************)
\* BillingCalculator(db_path) without sqlite3.connect
Construct_noconnect ==
    /\ conn' = conn
    /\ used' = FALSE
    /\ UNCHANGED <<tables_exist, apicall, commerce, calls, selected_months,
                   export_path, stages, error_logged, outcome, returned,
                   exported, first_use, again, loaded, pricing_vars>>

\* calculator = BillingCalculator(db_path): a new calculator with a
\* connection of its own on the same file; what the caller holds stays
Construct ==
    /\ conn' = "open"
    /\ used' = FALSE
    /\ UNCHANGED <<tables_exist, apicall, commerce, calls, selected_months,
                   export_path, stages, error_logged, outcome, returned,
                   exported, first_use, again, loaded, pricing_vars>>

\* Both runs are made by the same installation: a frame without rows is
\* priced the same way, and the same product rounds the same way
SameInstallation ==
    /\ ("aggregate" \in stages /\ "aggregate" \in stages')
       => (stages = StagesUpTo(5) <=> stages' = StagesUpTo(5))
    /\ (exported # None /\ exported' # None) => exported' = exported

\* The caller repeats the last call on the calculator at hand, with the
\* same arguments and the same data, and keeps what the first one gave and
\* whether each of the two calls had a calculator of its own
RunAgain ==
    /\ outcome = "returned"
    /\ again = None
    /\ run_billing_process(export_path, selected_months)
    /\ SameInstallation
    /\ again' = Some([returned |-> returned, stages |-> stages,
                      fresh |-> first_use /\ ~used])
    /\ used' = TRUE
    /\ first_use' = ~used
    /\ UNCHANGED loaded

\* Records of the default period only
ReuseKinds == {k \in CallKinds :
                  \/ k.date_api_call = Unparseable
                  \/ k.date_api_call = [year |-> 2024, month |-> 7]}

ReuseCallTables ==
    UNION {{t \in [K -> RowCounts] : \A k \in K : t[k] \in CountsFor(k)} :
           K \in SubsetsUpTo(ReuseKinds, MaxKinds)}

ReuseCommerceTables ==
    {t \in CommerceTables :
        \A c \in DOMAIN t : t[c].commerce_name = Zenith}

InitReuse ==
    /\ tables_exist \in BOOLEAN
    /\ apicall \in IF tables_exist THEN ReuseCallTables ELSE {EmptyBag}
    /\ commerce \in IF tables_exist THEN ReuseCommerceTables ELSE {<<>>}
    /\ NotCalled
    /\ NoDirectCall

NextReuse ==
    \/ RunBillingProcess
    \/ Construct
    \/ RunAgain
    \/ LoadData

SpecReuse == InitReuse /\ [][NextReuse]_vars

(***************************************************************************)
(* The pricing engine called directly                                      *)
(***************************************************************************)
PricingNames ==
    {Innovexa, NexaTech, QuantumLeap, Zenith, FusionWave,
     Padded(NexaTech), Padded(Zenith), Padded(FusionWave),
     <<"Acme", " ", "Ltd">>, <<"zenith", " ", "corp">>,
     <<"Zenith", " ", " ", "Corp">>}

Around(t) == {n \in (t - Slack)..(t + Slack) : n >= 0}

SuccessfulCounts == Around(0) \cup {100} \cup Around(10000)
                    \cup Around(20000) \cup Around(22000)

FailedCounts == Around(0) \cup {10} \cup Around(2500) \cup Around(4500)
                \cup Around(6000)

NoRecordSource ==
    /\ tables_exist = FALSE
    /\ apicall = EmptyBag
    /\ commerce = <<>>

InitPricing ==
    /\ row \in [commerce_name : PricingNames, successful : SuccessfulCounts,
                failed : FailedCounts]
    /\ apply_discount \in BOOLEAN
    /\ apply_iva \in BOOLEAN
    /\ total = None
    /\ NoRecordSource
    /\ NotCalled

\* self._calculate_company_billing(row, apply_discount, apply_iva)
CalculateCompanyBilling ==
    /\ total = None
    /\ total' = Some(_calculate_company_billing(row, apply_discount,
                                                apply_iva))
    /\ UNCHANGED <<row, apply_discount, apply_iva, pipeline_vars>>

\* self._calculate_company_billing_base(row)
CalculateCompanyBillingBase ==
    /\ total = None
    /\ apply_discount' = FALSE
    /\ apply_iva' = FALSE
    /\ total' = Some(_calculate_company_billing_base(row))
    /\ UNCHANGED <<row, pipeline_vars>>

NextPricing == CalculateCompanyBilling \/ CalculateCompanyBillingBase

SpecPricing == InitPricing /\ [][NextPricing]_vars

(***************************************************************************)
(* Properties of the pricing engine, checked under SpecPricing             *)
(***************************************************************************)
KnownNames == {Innovexa, NexaTech, QuantumLeap, Zenith, FusionWave}

\* The decimal amount * (d / 100) * (t / 100), in one step
Times(amount, d, t) ==
    LET w == (amount % 10000) * d * t
    IN  [units |-> (amount \div 10000) * d * t + (w \div 10000),
         frac  |-> w % 10000]

Called == total # None

\* C1: for the group "NexaTech Industries" the price is s*250 for s <= 10000,
\* s*200 for 10000 < s <= 20000 and s*170 for s > 20000 (2 500 000 at 10000,
\* 2 000 200 at 10001, 4 000 000 at 20000, 3 400 170 at 20001); with the IVA
\* it is that amount times 1.19; the failed count and the discount flag
\* change nothing.
C1_NexaTechTiers ==
    (Called /\ row.commerce_name = NexaTech) =>
        LET s      == row.successful
            amount == IF s <= 10000 THEN s * 250
                      ELSE IF s <= 20000 THEN s * 200
                      ELSE s * 170
        IN  /\ total[1] = Times(amount, 100, IF apply_iva THEN 119 ELSE 100)
            /\ (~apply_iva /\ s = 10000) => total[1] = Money(2500000)
            /\ (~apply_iva /\ s = 10001) => total[1] = Money(2000200)
            /\ (~apply_iva /\ s = 20000) => total[1] = Money(4000000)
            /\ (~apply_iva /\ s = 20001) => total[1] = Money(3400170)

C1_Witness ==
    /\ Called
    /\ row.commerce_name = NexaTech
    /\ row.successful = 10000
    /\ row.failed = 6001
    /\ apply_discount
    /\ apply_iva
    /\ total[1] = [units |-> 2975000, frac |-> 0]

\* C2: for the group "Zenith Corp" the base is s*250 for s <= 22000 and
\* s*130 above; it is multiplied by 0.95 exactly when apply_discount holds
\* and f > 6000, and then by 1.19 exactly when apply_iva holds.
C2_ZenithRule ==
    (Called /\ row.commerce_name = Zenith) =>
        LET s    == row.successful
            base == IF s <= 22000 THEN s * 250 ELSE s * 130
            d    == IF apply_discount /\ row.failed > 6000 THEN 95 ELSE 100
            t    == IF apply_iva THEN 119 ELSE 100
        IN  total[1] = Times(base, d, t)

C2_Witness ==
    /\ Called
    /\ row.commerce_name = Zenith
    /\ row.successful = 22001
    /\ row.failed = 6000
    /\ apply_discount
    /\ ~apply_iva
    /\ total[1] = Money(2860130)

\* C3: for the group "FusionWave Enterprises" the base is s*300; with
\* apply_discount the factor is 1 for f < 2500, 0.95 for 2500 <= f <= 4500
\* and 0.92 for f > 4500, one factor only; without apply_discount there is
\* no discount.
C3_FusionWaveBands ==
    (Called /\ row.commerce_name = FusionWave) =>
        LET f == row.failed
            d == IF ~apply_discount \/ f < 2500 THEN 100
                 ELSE IF f <= 4500 THEN 95
                 ELSE 92
            t == IF apply_iva THEN 119 ELSE 100
        IN  total[1] = Times(row.successful * 300, d, t)

C3_Witness ==
    /\ Called
    /\ row.commerce_name = FusionWave
    /\ row.successful = 100
    /\ row.failed = 2500
    /\ apply_discount
    /\ ~apply_iva
    /\ total[1] = Money(28500)

\* The price of the same group with another successful count
PriceAt(s) ==
    _calculate_company_billing([row EXCEPT !.successful = s],
                               apply_discount, apply_iva)

\* The rate tier a successful count falls in
Tier(name, s) ==
    IF name = NexaTech
    THEN IF s <= 10000 THEN 1 ELSE IF s <= 20000 THEN 2 ELSE 3
    ELSE IF name = Zenith
    THEN IF s <= 22000 THEN 1 ELSE 2
    ELSE 1

\* C5 as stated: for every known company and fixed failed count the price
\* never decreases when the successful count grows.
C5_Monotone ==
    (Called /\ strip(row.commerce_name) \in KnownNames) =>
        \A s2 \in SuccessfulCounts :
            row.successful <= s2 => LessEq(total[1], PriceAt(s2))

\* C5 amended: the price never decreases when the successful count grows
\* within one rate tier of the company (Innovexa, QuantumLeap and FusionWave
\* have a single tier).
C5_MonotoneWithinTier ==
    (Called /\ strip(row.commerce_name) \in KnownNames) =>
        \A s2 \in SuccessfulCounts :
            (/\ row.successful <= s2
             /\ Tier(strip(row.commerce_name), row.successful)
                  = Tier(strip(row.commerce_name), s2))
            => LessEq(total[1], PriceAt(s2))

C5_Witness ==
    /\ Called
    /\ row.commerce_name = NexaTech
    /\ row.successful = 10000 - Slack
    /\ apply_discount
    /\ apply_iva
    /\ LessEq(total[1], PriceAt(10000))
    /\ ~LessEq(total[1], PriceAt(10001))

(***************************************************************************)
(* Properties of the run, checked under Spec                               *)
(***************************************************************************)
\* The last call returned a summary
HasResult == returned # None

Results == returned[1]

\* The period the last call was configured with
TargetMonths ==
    IF selected_months = None \/ selected_months = Some(<<>>)
    THEN {7, 8}
    ELSE {selected_months[1][i] : i \in 1..Len(selected_months[1])}

InPeriod(k) == /\ k.date_api_call # Unparseable
               /\ k.date_api_call.year = 2024
               /\ k.date_api_call.month \in TargetMonths

Billable(c) == c \in DOMAIN commerce /\ commerce[c].commerce_status = "Active"

\* The kinds of call record of commerce c in the period
KindsInPeriod(c) ==
    {k \in DOMAIN apicall : k.commerce_id = c /\ InPeriod(k)}

\* Number of call records of the kinds K
CallCount(K) == BagCardinality([k \in K |-> apicall[k]])

EligibleCalls(c) == CallCount(KindsInPeriod(c))

SuccessfulCalls(c) ==
    CallCount({k \in KindsInPeriod(c) : k.ask_status = "Successful"})

OtherCalls(c) ==
    CallCount({k \in KindsInPeriod(c) : k.ask_status # "Successful"})

\* The commerce a result belongs to
CommerceOf(result) == result.Nit[2]

\* C4 as stated: in every result Valor_Total is Valor_comision times 1.19.
C4_TotalIsPretaxTimesIva ==
    HasResult =>
        \A i \in 1..Len(Results) :
            Results[i].Valor_Total
                = Times(Results[i].Valor_comision.units, 100, 100 + iva_rate)

\* C6 as stated: when the record source cannot be read or a timestamp cannot
\* be parsed, the error leaves run_billing_process; the call does not return.
C6_ErrorsPropagate ==
    (/\ calls > 0
     /\ \/ ~tables_exist
        \/ \E k \in DOMAIN apicall : k.date_api_call = Unparseable)
    => outcome = "raised"

\* C7 as stated: with a month outside 1..12 among selected_months nothing is
\* read, filtered, aggregated or priced.
C7_InvalidMonthRejected ==
    (/\ calls > 0
     /\ selected_months # None
     /\ \E i \in 1..Len(selected_months[1]) :
           selected_months[1][i] \notin 1..12)
    => stages \cap {"read", "filter", "merge", "aggregate", "price"} = {}

\* C8: an Active commerce with calls in the period whose trimmed name is none
\* of the five contract names gets a result with its real counts and with
\* Valor_comision = 0 and Valor_Total = 0, and the engine prices its group at
\* 0 under every combination of flags.
C8_UnknownCompanyZero ==
    HasResult =>
        /\ \A c \in DOMAIN commerce :
              (/\ Billable(c)
               /\ EligibleCalls(c) > 0
               /\ strip(commerce[c].commerce_name) \notin KnownNames)
              => \E i \in 1..Len(Results) :
                    /\ CommerceOf(Results[i]) = c
                    /\ Results[i].Conseguidas = SuccessfulCalls(c)
                    /\ Results[i].Falladas = OtherCalls(c)
        /\ \A i \in 1..Len(Results) :
              strip(Results[i].Nombre) \notin KnownNames
              => /\ Results[i].Valor_comision = Money(0)
                 /\ Results[i].Valor_Total = Money(0)
                 /\ \A d \in BOOLEAN, v \in BOOLEAN :
                       _calculate_company_billing(
                           [commerce_name |-> Results[i].Nombre,
                            successful    |-> Results[i].Conseguidas,
                            failed        |-> Results[i].Falladas], d, v)
                       = Money(0)

C8_Witness ==
    /\ HasResult
    /\ \E i \in 1..Len(Results) :
          /\ Results[i].Nombre = <<"Acme", " ", "Ltd">>
          /\ Results[i].Conseguidas = 100
          /\ Results[i].Falladas = 6001
          /\ Results[i].Valor_Total = Money(0)

\* C9: in every result Conseguidas + Falladas is the number of call records
\* of that commerce in the period, Conseguidas counting the records whose
\* status is "Successful" and Falladas all the others.
C9_CountsAddUp ==
    HasResult =>
        \A i \in 1..Len(Results) :
            LET c == CommerceOf(Results[i])
            IN  /\ Billable(c)
                /\ Results[i].Conseguidas + Results[i].Falladas
                     = EligibleCalls(c)
                /\ Results[i].Conseguidas = SuccessfulCalls(c)
                /\ Results[i].Falladas = OtherCalls(c)

C9_Witness ==
    /\ HasResult
    /\ \E i \in 1..Len(Results) :
          /\ Results[i].Conseguidas = 0
          /\ Results[i].Falladas = 6001
          /\ \E k \in DOMAIN apicall :
                /\ k.commerce_id = CommerceOf(Results[i])
                /\ ~InPeriod(k)

\* C10: the commerces with a result are exactly the commerces whose status is
\* "Active" and that have a call record in the period, one result each.
C10_BilledCommerces ==
    HasResult =>
        /\ {CommerceOf(Results[i]) : i \in 1..Len(Results)}
             = {c \in DOMAIN commerce : Billable(c) /\ EligibleCalls(c) > 0}
        /\ \A i, j \in 1..Len(Results) :
              CommerceOf(Results[i]) = CommerceOf(Results[j]) => i = j

C10_Witness ==
    /\ HasResult
    /\ Len(Results) = 1
    /\ \E k \in DOMAIN apicall :
          /\ InPeriod(k)
          /\ k.commerce_id \in DOMAIN commerce
          /\ commerce[k.commerce_id].commerce_status = "active"

\* C11: when a call of run_billing_process has finished, with a summary or
\* after any stage raised, the connection is closed.
C11_ConnectionReleased ==
    outcome # "not_called" => conn = "closed"

C11_Witness ==
    /\ outcome = "returned"
    /\ error_logged
    /\ returned = None
    /\ "price" \in stages
    /\ conn = "closed"

\* C13: an Active commerce named "Innovexa Solutions" with s successful and f
\* other calls in the period gets a result with these counts,
\* Valor_comision = 300*s, Valor_Total = 300*s*1.19 = 357*s and
\* Valor_iva = Valor_Total - Valor_comision = 57*s, whatever f is; with
\* s = 100 and f = 10 that is 30000, 5700 and 35700.
C13_InnovexaEndToEnd ==
    HasResult =>
        /\ \A c \in DOMAIN commerce :
              (/\ Billable(c)
               /\ EligibleCalls(c) > 0
               /\ commerce[c].commerce_name = Innovexa)
              => \E i \in 1..Len(Results) :
                    /\ CommerceOf(Results[i]) = c
                    /\ Results[i].Nombre = Innovexa
                    /\ Results[i].Conseguidas = SuccessfulCalls(c)
                    /\ Results[i].Falladas = OtherCalls(c)
        /\ \A i \in 1..Len(Results) :
              Results[i].Nombre = Innovexa
              => LET s == Results[i].Conseguidas
                 IN  /\ Results[i].Valor_comision = Money(300 * s)
                     /\ Results[i].Valor_Total = Money(357 * s)
                     /\ Results[i].Valor_iva = Money(57 * s)
                     /\ (s = 100 /\ Results[i].Falladas = 10)
                        => /\ Results[i].Valor_comision = Money(30000)
                           /\ Results[i].Valor_iva = Money(5700)
                           /\ Results[i].Valor_Total = Money(35700)

C13_Witness ==
    /\ HasResult
    /\ \E i \in 1..Len(Results) :
          /\ Results[i].Nombre = Innovexa
          /\ Results[i].Conseguidas = 100
          /\ Results[i].Falladas = 10
          /\ Results[i].Valor_comision = Money(30000)
          /\ Results[i].Valor_iva = Money(5700)
          /\ Results[i].Valor_Total = Money(35700)

\* The group a result stands for, as the pricing functions read it
GroupOf(result) ==
    [commerce_name |-> result.Nombre,
     successful    |-> result.Conseguidas,
     failed        |-> result.Falladas]

\* C15 as stated: in every result Valor_comision is the price of the group
\* with both flags false, Valor_Total the price of the same group with both
\* flags true, and Valor_iva is exactly Valor_Total - Valor_comision.
C15_TwoPricingPasses ==
    HasResult =>
        \A i \in 1..Len(Results) :
            /\ Results[i].Valor_comision
                   = _calculate_company_billing(GroupOf(Results[i]),
                                                FALSE, FALSE)
            /\ Results[i].Valor_Total
                   = _calculate_company_billing(GroupOf(Results[i]),
                                                TRUE, TRUE)
            /\ Results[i].Valor_iva
                   = Minus(Results[i].Valor_Total, Results[i].Valor_comision)

\* C16 as stated: the amounts run_billing_process returns are the computed
\* ones, not rounded, with or without an export_path.
C16_ReturnedUnrounded ==
    HasResult =>
        Results = billing_summary(calculate_billing(load_data(selected_months)),
                                  selected_months)

\* The months a direct call of load_data was asked for
LoadedMonths ==
    IF loaded[1].selected_months = None
       \/ loaded[1].selected_months = Some(<<>>)
    THEN {7, 8}
    ELSE {loaded[1].selected_months[1][i] :
             i \in 1..Len(loaded[1].selected_months[1])}

ExportRaised(done) == done = StagesUpTo(9)

C17_SingleUse ==
    [][/\ calls' > calls => (used' /\ conn' = "closed")
       /\ used' => conn' = "closed"
       /\ (used /\ calls' > calls)
          => (returned' = None /\ error_logged' /\ stages' = {})
       /\ (loaded' # None /\ loaded'[1].conn = "closed")
          => loaded'[1].outcome = "raised"]_vars

C17_Witness ==
    /\ again # None
    /\ ~again[1].fresh
    /\ again[1].returned # None
    /\ returned = None
    /\ error_logged
    /\ conn = "closed"
    /\ loaded # None
    /\ loaded[1].conn = "closed"
    /\ loaded[1].outcome = "raised"

=============================================================================
